---- MODULE Spec2Model ----
(***************************************************************************)
(* A model of performance_test_runner.py: the bounded worker pool of       *)
(* PerformanceTester.run_tests, the request loop of test_endpoint, the     *)
(* request executor _send_request, the run loop of main, and the pure      *)
(* functions _resolve_variables and aggregate_results.                     *)
(*                                                                         *)
(* Four specifications share the module's variables:                       *)
(*   Spec / FairSpec  one call of run_tests, thread by thread              *)
(*   SpecMain         main(): the run loop, the summary, the aggregate     *)
(*   SpecAgg          run_tests' statistics and aggregate_results          *)
(*   SpecResolve      _resolve_variables on a string                       *)
(* Each specification leaves the variables of the others at their initial  *)
(* values.                                                                 *)
(***************************************************************************)
EXTENDS Integers, Sequences, FiniteSets, TLC

\* ------------------------------------------------------------ bounds
\* The configuration the pool is run with (TestConfig fields).
NumEndpoints == 3
NumWorkers == 2
RequestsPerEndpoint == 2

\* num_test_runs of the configuration main is run with
NumTestRuns == 2
\* aggregate_results and the statistics on their own: how many runs, and how
\* many outcomes a run's combined list holds
MaxRuns == 2
MaxOutcomes == 2

\* the longest string value _resolve_variables is given
MaxTemplateLen == 5

Endpoints == 1..NumEndpoints

\* every sequence over S of length at most n
SeqsUpTo(S, n) == UNION {[1..k -> S] : k \in 0..n}

\* ------------------------------------------------------------ values
\* Optional[T]: None is the empty sequence, a present value a singleton.
None == <<>>
Some(x) == <<x>>

\* Exact fractions stand for Python's float results of "/".
RECURSIVE Gcd(_, _)
Gcd(a, b) == IF b = 0 THEN a ELSE Gcd(b, a % b)

Rat(n, d) ==
    IF n = 0 THEN [num |-> 0, den |-> 1]
    ELSE [num |-> n \div Gcd(n, d), den |-> d \div Gcd(n, d)]

\* ------------------------------------------------------------ transport
\* What session.request(...) followed by response.raise_for_status() can do:
\* hand back a response, raise a requests RequestException (with or without
\* a response attached), or raise any other exception.
Response(status, elapsed) ==
    [kind |-> "response", has_response |-> TRUE, status |-> status,
     elapsed |-> elapsed]
ConnectionFailure(elapsed) ==
    [kind |-> "request_exception", has_response |-> FALSE, status |-> 0,
     elapsed |-> elapsed]
OtherException ==
    [kind |-> "other_exception", has_response |-> FALSE, status |-> 0,
     elapsed |-> 0]

\* requests.Response.ok / raise_for_status: 4xx and 5xx are errors.
IsErrorStatus(status) == status >= 400 /\ status < 600

\* The transport results the pool is exercised with: a server that answers
\* 200 or 404, and a transport that may raise an unexpected exception.
PoolTransport == {Response(200, 2), Response(404, 1), OtherException}

\* The two ways _send_request can end, which is all that the scheduling of
\* the tasks depends on: it returns a result or it raises.
FairTransport == {Response(200, 2), OtherException}

\* TestResult
TestResult(endpoint, method, success, status_code, response_time, error, request_data, seq, body) ==
    [endpoint |-> endpoint, method |-> method, success |-> success,
     status_code |-> status_code, response_time |-> response_time,
     error |-> error, request_data |-> request_data,
     \* not fields of the dataclass: the iteration that sent the request and
     \* the payload it carried (None when it carried none)
     seq |-> seq, body |-> body]

\* _send_request: one transport call; a result is returned from the try body
\* or from the "except RequestException" handler, any other exception leaves
\* the function.
\* `kwargs` is the json/data payload of the call, None when there is none.
send_request(method, url, seq, kwargs, tr) ==
    IF tr.kind = "response" /\ ~IsErrorStatus(tr.status)
    THEN [raised |-> FALSE,
          result |-> Some(TestResult(url, method, TRUE, Some(tr.status),
                                     tr.elapsed, None, None, seq, kwargs))]
    ELSE IF tr.kind \in {"response", "request_exception"}
    THEN [raised |-> FALSE,
          result |-> Some(TestResult(url, method, FALSE,
              \* e.response is truthy only for a response that is ok
              IF tr.has_response /\ ~IsErrorStatus(tr.status)
                  THEN Some(tr.status) ELSE None,
              tr.elapsed,
              Some(IF tr.kind = "response" THEN "HTTPError"
                                            ELSE "ConnectionError"),
              kwargs, seq, kwargs))]
    ELSE [raised |-> TRUE, result |-> None]

\* ------------------------------------------------------------ statistics
Successful(rs) == SelectSeq(rs, LAMBDA r : r.success)
Failed(rs) == SelectSeq(rs, LAMBDA r : ~r.success)

RECURSIVE SeqSum(_)
SeqSum(s) == IF s = <<>> THEN 0 ELSE Head(s) + SeqSum(Tail(s))

RECURSIVE SeqMin(_)
SeqMin(s) ==
    IF Len(s) = 1 THEN Head(s)
    ELSE LET m == SeqMin(Tail(s)) IN IF Head(s) < m THEN Head(s) ELSE m

RECURSIVE SeqMax(_)
SeqMax(s) ==
    IF Len(s) = 1 THEN Head(s)
    ELSE LET m == SeqMax(Tail(s)) IN IF Head(s) > m THEN Head(s) ELSE m

\* the response times of every outcome, failed ones included
response_times_of_all(all) == [i \in 1..Len(all) |-> all[i].response_time]

\* run_tests, lines 255-257
response_times_of(all) ==
    [i \in 1..Len(Successful(all)) |-> Successful(all)[i].response_time]

\* run_tests, lines 254-268
RunStatistics(all) ==
    LET times == response_times_of(all)
        failed == Failed(all)
    IN [total_requests |-> Len(all),
        successful_requests |-> Len(Successful(all)),
        failed_requests |-> Len(failed),
        min_time |-> IF times # <<>> THEN SeqMin(times) ELSE 0,
        max_time |-> IF times # <<>> THEN SeqMax(times) ELSE 0,
        avg_time |-> IF times # <<>> THEN Rat(SeqSum(times), Len(times))
                                      ELSE Rat(0, 1),
        response_times |-> times,
        errors |-> [i \in 1..Len(failed) |->
                       [endpoint |-> failed[i].endpoint,
                        error |-> failed[i].error]]]

\* ------------------------------------------------------------ run_tests
VARIABLES
    transport,    \* what the transport can do with a request (the environment)
    pc,           \* the calling thread in run_tests: submit, collect, stats, returned, raised
    submitted,    \* how many endpoints the submit loop has handed to the executor
    workQueue,    \* the executor's FIFO work queue of endpoint tasks
    future,       \* per endpoint: none, pending, running, done, failed
    tpc,          \* per endpoint: where its test_endpoint call is: idle, resolve, send, sleep
    exception,    \* per endpoint: which call raised the exception its future holds
    results,      \* per endpoint: the results list of its test_endpoint call
    resolutions,  \* per endpoint: calls of _generate_request_data made by its task
    all_results,  \* run_tests' combined list
    collected,    \* the futures as_completed has yielded
    stats         \* run_tests' return value, None until it returns

poolVars == <<transport, pc, submitted, workQueue, future, tpc, exception, results,
              resolutions, all_results, collected, stats>>

\* main
VARIABLES
    mainPc,       \* where main is: start, loop, summary, aggregate, report, done
    run,          \* test runs whose summary has been printed
    all_stats,    \* main's list of per-run statistics
    summaries,    \* per-run summaries printed in full
    aggregated,   \* the value aggregate_results returned, None before
    error,        \* the exception a call raised (main's handler catches it), "none" if none
    exitCode      \* main's return value, None while it runs

mainVars == <<mainPc, run, all_stats, summaries, aggregated, error, exitCode>>

\* run_tests' statistics and aggregate_results, on their own
VARIABLES
    runOutcomes,  \* per run, the combined outcome list run_tests ended with
    aggPc         \* idle, stats, returned, raised

aggVars == <<runOutcomes, aggPc>>

\* _resolve_variables
VARIABLES
    tables,       \* config.variables, generators, datasets, ranges
    template,     \* the string to resolve
    given,        \* the value _resolve_variables was called with, None before
    resolved      \* what the call did: the value returned or the exception

resVars == <<tables, template, given, resolved>>

vars == <<poolVars, mainVars, aggVars, resVars>>

\* main has not begun
MainStart ==
    /\ mainPc = "start"
    /\ run = 0
    /\ all_stats = <<>>
    /\ summaries = 0
    /\ aggregated = None
    /\ error = "none"
    /\ exitCode = None

\* the variables of the function-level specifications, while unused
AggIdle == runOutcomes = <<>> /\ aggPc = "idle"
ResIdle == tables = <<>> /\ template = <<>> /\ given = None /\ resolved = None

Running == {e \in Endpoints : future[e] = "running"}
Completed == {e \in Endpoints : future[e] \in {"done", "failed"}}

\* run_tests is entered: nothing submitted, nothing collected
PoolStart ==
    /\ pc = "submit"
    /\ submitted = 0
    /\ workQueue = <<>>
    /\ future = [e \in Endpoints |-> "none"]
    /\ tpc = [e \in Endpoints |-> "idle"]
    /\ exception = [e \in Endpoints |-> "none"]
    /\ results = [e \in Endpoints |-> <<>>]
    /\ resolutions = [e \in Endpoints |-> 0]
    /\ all_results = <<>>
    /\ collected = {}
    /\ stats = None

PoolInit == transport = PoolTransport /\ PoolStart

\* a pool that starts every queued task at once
worker_available_unbounded(running) == TRUE

\* ThreadPoolExecutor(max_workers=num_workers): a queued task is picked up
\* only by one of at most num_workers worker threads.
worker_available(running) == Cardinality(running) < NumWorkers

\* executor.submit(self.test_endpoint, endpoint), in configuration order
Submit ==
    /\ pc = "submit"
    /\ submitted < NumEndpoints
    /\ LET e == submitted + 1 IN
        /\ future' = [future EXCEPT ![e] = "pending"]
        /\ workQueue' = Append(workQueue, e)
    /\ submitted' = submitted + 1
    /\ pc' = IF submitted + 1 = NumEndpoints THEN "collect" ELSE "submit"
    /\ UNCHANGED <<transport, tpc, exception, results, resolutions,
                   all_results, collected, stats>>
    /\ UNCHANGED <<mainVars, aggVars, resVars>>

\* a free worker thread takes the head of the work queue and enters
\* test_endpoint
StartTask ==
    /\ workQueue # <<>>
    /\ worker_available(Running)
    /\ LET e == Head(workQueue) IN
        /\ future' = [future EXCEPT ![e] = "running"]
        /\ tpc' = [tpc EXCEPT ![e] = "resolve"]
    /\ workQueue' = Tail(workQueue)
    /\ UNCHANGED <<transport, pc, submitted, exception, results,
                   resolutions, all_results, collected, stats>>
    /\ UNCHANGED <<mainVars, aggVars, resVars>>

\* test_endpoint, lines 220-222: a payload is sent only with POST, PUT and
\* PATCH, and only when the resolved data is not empty. The value a
\* resolution of a dynamic template yields is named by the resolution's
\* number.
request_kwargs(method, request_data) ==
    IF method \in {"POST", "PUT", "PATCH"} /\ request_data # None
    THEN request_data ELSE None

\* the state of a task whose loop has recorded `rs`: it returns after
\* requests_per_endpoint iterations
after_loop(rs) == IF Len(rs) >= RequestsPerEndpoint THEN "done" ELSE "running"

\* test_endpoint up to the loop: request_data = _generate_request_data(...),
\* once, before the loop. The body template is a payload with a dynamic tag;
\* resolving it yields a fresh value or raises (an unreadable @file, a
\* malformed $range{...}).
ResolveBody(e) ==
    /\ future[e] = "running"
    /\ tpc[e] = "resolve"
    /\ \E ok \in BOOLEAN :
        IF ok
        THEN /\ resolutions' = [resolutions EXCEPT ![e] = @ + 1]
             /\ tpc' = [tpc EXCEPT ![e] =
                            IF after_loop(<<>>) = "done" THEN "idle" ELSE "send"]
             /\ future' = [future EXCEPT ![e] = after_loop(<<>>)]
             /\ UNCHANGED exception
        ELSE /\ future' = [future EXCEPT ![e] = "failed"]
             /\ exception' = [exception EXCEPT ![e] = "resolve"]
             /\ tpc' = [tpc EXCEPT ![e] = "idle"]
             /\ UNCHANGED resolutions
    /\ UNCHANGED <<transport, pc, submitted, workQueue, results, all_results,
                   collected, stats>>
    /\ UNCHANGED <<mainVars, aggVars, resVars>>

\* endpoint_config.get('delay'), in milliseconds: of every three endpoints
\* of the configuration the first carries a delay of 5, the second none,
\* the third a delay of -5
delay_of(e) ==
    IF e % 3 = 1 THEN Some(5) ELSE IF e % 3 = 2 THEN None ELSE Some(0 - 5)

\* 'delay' in endpoint_config
has_delay(e) == delay_of(e) # None

\* time.sleep(secs) raises ValueError for a negative length
sleep_raises(delay) == delay < 0

\* one iteration of the loop of test_endpoint: _send_request with the kwargs
\* built before the loop, results.append(result); an endpoint with a delay
\* then waits, one without goes on to the next iteration, and after the
\* last iteration the task returns its results
SendRequest(e) ==
    /\ future[e] = "running"
    /\ tpc[e] = "send"
    /\ \E tr \in transport :
        LET r == send_request("POST", e, Len(results[e]) + 1,
                              request_kwargs("POST", Some(resolutions[e])), tr)
        IN IF r.raised
           THEN /\ future' = [future EXCEPT ![e] = "failed"]
                /\ exception' = [exception EXCEPT ![e] = "send"]
                /\ results' = [results EXCEPT ![e] = <<>>]
                /\ tpc' = [tpc EXCEPT ![e] = "idle"]
           ELSE LET rs == results[e] \o r.result IN
                /\ results' = [results EXCEPT ![e] = rs]
                /\ IF has_delay(e)
                   THEN /\ tpc' = [tpc EXCEPT ![e] = "sleep"]
                        /\ UNCHANGED future
                   ELSE /\ future' = [future EXCEPT ![e] = after_loop(rs)]
                        /\ tpc' = [tpc EXCEPT ![e] =
                                IF after_loop(rs) = "done" THEN "idle" ELSE "send"]
                /\ UNCHANGED exception
    /\ UNCHANGED <<transport, pc, submitted, workQueue, resolutions,
                   all_results, collected, stats>>
    /\ UNCHANGED <<mainVars, aggVars, resVars>>

\* lines 229-231: time.sleep(delay / 1000). The call raises, which ends the
\* task with the exception and without its results, or it ends and the
\* loop goes on, or after the last iteration the task returns its results
Sleep(e) ==
    /\ future[e] = "running"
    /\ tpc[e] = "sleep"
    /\ IF sleep_raises(delay_of(e)[1])
       THEN /\ future' = [future EXCEPT ![e] = "failed"]
            /\ exception' = [exception EXCEPT ![e] = "sleep"]
            /\ results' = [results EXCEPT ![e] = <<>>]
            /\ tpc' = [tpc EXCEPT ![e] = "idle"]
       ELSE /\ future' = [future EXCEPT ![e] = after_loop(results[e])]
            /\ tpc' = [tpc EXCEPT ![e] =
                    IF after_loop(results[e]) = "done" THEN "idle" ELSE "send"]
            /\ UNCHANGED <<exception, results>>
    /\ UNCHANGED <<transport, pc, submitted, workQueue,
                   resolutions, all_results, collected, stats>>
    /\ UNCHANGED <<mainVars, aggVars, resVars>>

\* a merge that splices the new results into the list instead of appending
extend_spliced(all, rs) ==
    IF all = <<>> THEN rs ELSE <<Head(all)>> \o rs \o Tail(all)

\* all_results.extend(results)
extend(all, rs) == all \o rs

\* future.result() with no handler around it
collect_future_unguarded(all, status, rs) ==
    IF status = "done"
    THEN [all |-> extend(all, rs), propagated |-> FALSE]
    ELSE [all |-> all, propagated |-> TRUE]

\* the body of the as_completed loop for one future: future.result() inside
\* try / except Exception
collect_future(all, status, rs) ==
    IF status = "done"
    THEN [all |-> extend(all, rs), propagated |-> FALSE]
    ELSE [all |-> all, propagated |-> FALSE]

\* for future in as_completed(futures): any completed future not yet yielded
Collect(e) ==
    /\ pc = "collect"
    /\ e \in Completed \ collected
    /\ LET c == collect_future(all_results, future[e], results[e]) IN
        /\ all_results' = c.all
        /\ pc' = IF c.propagated THEN "raised"
                 ELSE IF collected \cup {e} = Endpoints THEN "stats"
                 ELSE "collect"
    /\ collected' = collected \cup {e}
    /\ UNCHANGED <<transport, submitted, workQueue, future, tpc, exception,
                   results, resolutions, stats>>
    /\ UNCHANGED <<mainVars, aggVars, resVars>>

\* lines 254-268
ComputeStats ==
    /\ pc = "stats"
    /\ stats' = Some(RunStatistics(all_results))
    /\ pc' = "returned"
    /\ UNCHANGED <<transport, submitted, workQueue, future, tpc, exception,
                   results, resolutions, all_results, collected>>
    /\ UNCHANGED <<mainVars, aggVars, resVars>>

MainThread == Submit \/ (\E e \in Endpoints : Collect(e)) \/ ComputeStats
TaskStep(e) == ResolveBody(e) \/ SendRequest(e) \/ Sleep(e)

Init == PoolInit /\ MainStart /\ AggIdle /\ ResIdle

Next ==
    \/ Submit
    \/ StartTask
    \/ \E e \in Endpoints : ResolveBody(e)
    \/ \E e \in Endpoints : SendRequest(e)
    \/ \E e \in Endpoints : Sleep(e)
    \/ \E e \in Endpoints : Collect(e)
    \/ ComputeStats

Spec == Init /\ [][Next]_vars

\* the per-thread fairness of the operating system's scheduler, and a
\* transport that answers or fails every request in finite time
FairInit ==
    /\ transport = FairTransport
    /\ PoolStart
    /\ MainStart
    /\ AggIdle
    /\ ResIdle

FairSpec ==
    /\ FairInit
    /\ [][Next]_vars
    /\ WF_vars(MainThread)
    /\ WF_vars(StartTask)
    /\ \A e \in Endpoints : WF_vars(TaskStep(e))

\* ------------------------------------------------------------ aggregate_results
\* dict.get(key, default): the default is used only when the key is absent
Get(d, key, default) == IF key \in DOMAIN d THEN d[key] ELSE default

\* n / d: ZeroDivisionError when d is 0
Divide(n, d) ==
    IF d = 0 THEN [raised |-> TRUE, value |-> Rat(0, 1)]
    ELSE [raised |-> FALSE, value |-> Rat(n, d)]

\* line 441: (stats.get('successful_requests', 0) / stats.get('total_requests', 1)) * 100
success_rate_of_run(st) ==
    Divide(Get(st, "successful_requests", 0) * 100, Get(st, "total_requests", 1))

\* line 491, in main: stats['successful_requests'] / stats['total_requests'] * 100
success_rate_of_summary(st) ==
    Divide(st.successful_requests * 100, st.total_requests)

\* lines 417-425
aggregated_init(all) ==
    [total_runs |-> Len(all), total_requests |-> 0, successful_requests |-> 0,
     failed_requests |-> 0, response_times |-> <<>>, all_errors |-> <<>>,
     run_stats |-> <<>>]

\* lines 428-445: the loop over the runs; a ZeroDivisionError ends the call
RECURSIVE aggregate_loop(_, _)
aggregate_loop(agg, rest) ==
    IF rest = <<>> THEN [raised |-> FALSE, value |-> agg]
    ELSE LET st == Head(rest)
             rate == success_rate_of_run(st)
         IN IF rate.raised THEN [raised |-> TRUE, value |-> agg]
            ELSE aggregate_loop(
                [agg EXCEPT
                    !.total_requests = @ + Get(st, "total_requests", 0),
                    !.successful_requests = @ + Get(st, "successful_requests", 0),
                    !.failed_requests = @ + Get(st, "failed_requests", 0),
                    !.response_times =
                        IF "response_times" \in DOMAIN st /\ st.response_times # <<>>
                        THEN @ \o st.response_times ELSE @,
                    !.all_errors =
                        IF "errors" \in DOMAIN st THEN @ \o st.errors ELSE @,
                    !.run_stats = Append(@,
                        [success_rate |-> rate.value,
                         avg_time |-> Get(st, "avg_time", Rat(0, 1)),
                         min_time |-> Get(st, "min_time", 0),
                         max_time |-> Get(st, "max_time", 0)])],
                Tail(rest))

\* lines 448-449, 453
aggregated_avg_time(times, run_stats) ==
    IF times # <<>> THEN Rat(SeqSum(times), Len(times)) ELSE Rat(0, 1)

\* lines 458-461
combined_success_rate(successful, total) ==
    IF total > 0 THEN Rat(successful * 100, total) ELSE Rat(0, 1)

\* lines 447-463
aggregate_finish(agg) ==
    [total_runs |-> agg.total_runs,
     total_requests |-> agg.total_requests,
     successful_requests |-> agg.successful_requests,
     failed_requests |-> agg.failed_requests,
     response_times |-> agg.response_times,
     all_errors |-> agg.all_errors,
     run_stats |-> agg.run_stats,
     avg_time |-> aggregated_avg_time(agg.response_times, agg.run_stats),
     min_time |-> IF agg.response_times # <<>> THEN SeqMin(agg.response_times) ELSE 0,
     max_time |-> IF agg.response_times # <<>> THEN SeqMax(agg.response_times) ELSE 0,
     success_rate |-> combined_success_rate(agg.successful_requests,
                                            agg.total_requests)]

\* the empty dict
EmptyDict == <<>>

\* aggregate_results
aggregate_results(all) ==
    IF all = <<>> THEN [raised |-> FALSE, value |-> EmptyDict]
    ELSE LET r == aggregate_loop(aggregated_init(all), all)
         IN IF r.raised THEN [raised |-> TRUE, value |-> EmptyDict]
            ELSE [raised |-> FALSE, value |-> aggregate_finish(r.value)]

\* The outcomes the statistics are exercised with: two successes of
\* different latency and a slow transport failure, as _send_request builds
\* them.
AggTransport == {Response(200, 2), Response(200, 6), ConnectionFailure(9)}
AggOutcomes == {send_request("GET", 1, 1, None, tr).result[1] : tr \in AggTransport}

\* every list of at most MaxRuns combined outcome lists
AggInit ==
    /\ runOutcomes \in SeqsUpTo(SeqsUpTo(AggOutcomes, MaxOutcomes), MaxRuns)
    /\ aggPc = "stats"
    /\ MainStart
    /\ PoolInit
    /\ ResIdle

\* run_tests, lines 254-268, on the next run's combined list; the caller
\* appends the statistics to all_stats
StatsStep ==
    /\ aggPc = "stats"
    /\ Len(all_stats) < Len(runOutcomes)
    /\ all_stats' = Append(all_stats, RunStatistics(runOutcomes[Len(all_stats) + 1]))
    /\ UNCHANGED <<mainPc, run, summaries, aggregated, error, exitCode>>
    /\ UNCHANGED <<poolVars, aggVars, resVars>>

\* aggregate_results(all_stats)
AggregateStep ==
    /\ aggPc = "stats"
    /\ Len(all_stats) = Len(runOutcomes)
    /\ LET r == aggregate_results(all_stats) IN
        /\ aggPc' = IF r.raised THEN "raised" ELSE "returned"
        /\ error' = IF r.raised THEN "ZeroDivisionError" ELSE "none"
        /\ aggregated' = IF r.raised THEN None ELSE Some(r.value)
    /\ UNCHANGED <<mainPc, run, all_stats, summaries, exitCode>>
    /\ UNCHANGED <<poolVars, runOutcomes, resVars>>

NextAgg == StatsStep \/ AggregateStep

SpecAgg == AggInit /\ [][NextAgg]_vars

\* ------------------------------------------------------------ main
\* The transport results main's runs are exercised with.
MainTransport == {Response(200, 2), ConnectionFailure(9)}

\* What the task of endpoint e can hand to its future: an exception, or the
\* requests_per_endpoint outcomes of its loop.
TaskResults(e) ==
    {[status |-> "failed", rs |-> <<>>]}
    \cup IF has_delay(e) /\ sleep_raises(delay_of(e)[1]) THEN {}
         ELSE {[status |-> "done",
                rs |-> [i \in 1..RequestsPerEndpoint |->
                           send_request("POST", e, i,
                                        request_kwargs("POST", Some(1)),
                                        trs[i]).result[1]]]
               : trs \in [1..RequestsPerEndpoint -> MainTransport]}

\* the orders in which as_completed can yield the futures
CompletionOrders ==
    {o \in [1..NumEndpoints -> Endpoints] :
        \A i, j \in 1..NumEndpoints : i # j => o[i] # o[j]}

\* the as_completed loop of run_tests over the futures in the order `order`
RECURSIVE collect_all(_, _, _)
collect_all(all, order, res) ==
    IF order = <<>> THEN all
    ELSE collect_all(
            collect_future(all, res[Head(order)].status, res[Head(order)].rs).all,
            Tail(order), res)

\* run_tests as one call: the statistics of the combined list
run_tests(order, res) == RunStatistics(collect_all(<<>>, order, res))

MainInit ==
    /\ MainStart
    /\ PoolInit
    /\ AggIdle
    /\ ResIdle

\* the handler of main, lines 512-516
Abort(exc) ==
    /\ error' = exc
    /\ exitCode' = Some(1)
    /\ mainPc' = "done"

\* tester = PerformanceTester(args.config): the configuration loads or not
LoadConfig ==
    /\ mainPc = "start"
    /\ \E ok \in BOOLEAN :
        IF ok THEN /\ mainPc' = IF NumTestRuns > 0 THEN "loop" ELSE "aggregate"
                   /\ UNCHANGED <<error, exitCode>>
              ELSE Abort("config")
    /\ UNCHANGED <<run, all_stats, summaries, aggregated>>
    /\ UNCHANGED <<poolVars, aggVars, resVars>>

\* stats = tester.run_tests(); all_stats.append(stats)
RunTests ==
    /\ mainPc = "loop"
    /\ \E order \in CompletionOrders :
       \E res \in [Endpoints -> UNION {TaskResults(e) : e \in Endpoints}] :
        /\ \A e \in Endpoints : res[e] \in TaskResults(e)
        /\ all_stats' = Append(all_stats, run_tests(order, res))
    /\ mainPc' = "summary"
    /\ UNCHANGED <<run, summaries, aggregated, error, exitCode>>
    /\ UNCHANGED <<poolVars, aggVars, resVars>>

\* the summary of the run, lines 487-492
PrintSummary ==
    /\ mainPc = "summary"
    /\ LET rate == success_rate_of_summary(all_stats[Len(all_stats)]) IN
        IF rate.raised
        THEN /\ Abort("ZeroDivisionError")
             /\ UNCHANGED <<run, summaries>>
        ELSE /\ summaries' = summaries + 1
             /\ run' = run + 1
             /\ mainPc' = IF run + 1 < NumTestRuns THEN "loop" ELSE "aggregate"
             /\ UNCHANGED <<error, exitCode>>
    /\ UNCHANGED <<all_stats, aggregated>>
    /\ UNCHANGED <<poolVars, aggVars, resVars>>

\* lines 499-506
individual_runs(run_stats) ==
    [i \in 1..Len(run_stats) |->
        [run |-> i, success_rate |-> run_stats[i].success_rate,
         avg_time |-> run_stats[i].avg_time]]

\* lines 495-506
Aggregate ==
    /\ mainPc = "aggregate"
    /\ IF all_stats = <<>>
       THEN /\ mainPc' = "done"
            /\ exitCode' = Some(0)
            /\ UNCHANGED <<aggregated, error>>
       ELSE LET r == aggregate_results(all_stats) IN
            IF r.raised
            THEN /\ Abort("ZeroDivisionError")
                 /\ UNCHANGED aggregated
            ELSE /\ aggregated' =
                        Some(r.value @@ [individual_runs |->
                                            individual_runs(r.value.run_stats)])
                 /\ mainPc' = "report"
                 /\ UNCHANGED <<error, exitCode>>
    /\ UNCHANGED <<run, all_stats, summaries>>
    /\ UNCHANGED <<poolVars, aggVars, resVars>>

\* generate_html_report writes the file or fails; then main returns
Report ==
    /\ mainPc = "report"
    /\ \E ok \in BOOLEAN :
        IF ok THEN /\ mainPc' = "done"
                   /\ exitCode' = Some(0)
                   /\ UNCHANGED error
              ELSE Abort("report")
    /\ UNCHANGED <<run, all_stats, summaries, aggregated>>
    /\ UNCHANGED <<poolVars, aggVars, resVars>>

NextMain == LoadConfig \/ RunTests \/ PrintSummary \/ Aggregate \/ Report

SpecMain == MainInit /\ [][NextMain]_vars

\* ------------------------------------------------------------ _resolve_variables
\* A string is the sequence of its characters. The strings resolved are
\* those over the characters of a ${name} reference and one letter.
Chars == {"$", "{", "}", "x"}

\* A configuration value: its type, its truth value (bool(v)) and its text
\* (str(v)).
PyInt0 == [type |-> "int", truthy |-> FALSE, text |-> <<"0">>]
PyInt7 == [type |-> "int", truthy |-> TRUE, text |-> <<"7">>]
PyEmptyStr == [type |-> "str", truthy |-> FALSE, text |-> <<>>]
TableValues == {PyInt0, PyInt7, PyEmptyStr}

\* A lookup table of the configuration: no entry, or an entry for "x".
Tables == {<<>>} \cup {(<<"x">> :> v) : v \in TableValues}

\* f'${{{var_name}}}'
placeholder(name) == <<"$", "{">> \o name \o <<"}">>

\* the index of the first "}" of s at or after i, 0 if there is none
first_close(s, i) ==
    IF \E k \in i..Len(s) : s[k] = "}"
    THEN CHOOSE k \in i..Len(s) :
             s[k] = "}" /\ \A m \in i..(k - 1) : s[m] # "}"
    ELSE 0

\* re.match of \${([^}]+)} at index i of s: the index of the closing brace,
\* 0 when there is no match there
match_at(s, i) ==
    IF i + 1 <= Len(s) /\ s[i] = "$" /\ s[i + 1] = "{"
    THEN LET j == first_close(s, i + 2) IN IF j >= i + 3 THEN j ELSE 0
    ELSE 0

\* re.findall(r'\${([^}]+)}', value): the names of the non-overlapping
\* matches, left to right
RECURSIVE findall(_, _)
findall(s, i) ==
    IF \E k \in i..Len(s) : match_at(s, k) > 0
    THEN LET k == CHOOSE k \in i..Len(s) :
                      /\ match_at(s, k) > 0
                      /\ \A m \in i..(k - 1) : match_at(s, m) = 0
             j == match_at(s, k)
         IN <<SubSeq(s, k + 2, j - 1)>> \o findall(s, j + 1)
    ELSE <<>>

\* str.replace(old, new): every non-overlapping occurrence, left to right
RECURSIVE replace(_, _, _)
replace(s, old, new) ==
    LET at(k) == SubSeq(s, k, k + Len(old) - 1) = old
        last == Len(s) - Len(old) + 1
    IN IF \E k \in 1..last : at(k)
       THEN LET k == CHOOSE k \in 1..last :
                         at(k) /\ \A m \in 1..(k - 1) : ~at(m)
            IN SubSeq(s, 1, k - 1) \o new
                   \o replace(SubSeq(s, k + Len(old), Len(s)), old, new)
       ELSE s

\* dict.get(name): None when the key is absent
table_get(t, name) == IF name \in DOMAIN t THEN Some(t[name]) ELSE None

\* `a or b` over optional configuration values: a when it is truthy
Truthy(v) == v # None /\ v[1].truthy
Or(a, b) == IF Truthy(a) THEN a ELSE b

\* lines 144-151: the text spliced in for ${name}
var_text(cfg, name) ==
    LET v == Or(table_get(cfg.variables, name),
             Or(table_get(cfg.generators, name),
             Or(table_get(cfg.datasets, name),
                table_get(cfg.ranges, name))))
    IN IF Truthy(v) THEN v[1].text ELSE placeholder(name)

\* lines 141-152: the loop over the names found
RECURSIVE substitute(_, _, _)
substitute(cfg, result, names) ==
    IF names = <<>> THEN result
    ELSE substitute(cfg,
                    replace(result, placeholder(Head(names)),
                            var_text(cfg, Head(names))),
                    Tail(names))

\* The values _resolve_variables is given and hands back: a string with
\* its text, a list with its items, a dict with its entries in insertion
\* order; any other value is a record of another type.
Str(text) == [type |-> "str", text |-> text]
List(items) == [type |-> "list", items |-> items]
Dict(items) == [type |-> "dict", items |-> items]

\* what a provider that does not return the value itself produces: a random
\* number or choice, a uuid, a timestamp, filler text
Generated == [type |-> "generated"]

\* a call that ends with an exception
Raise(name) == [type |-> "exception", name |-> name]
ValueError == Raise("ValueError")
OverflowError == Raise("OverflowError")
MemoryError == Raise("MemoryError")
Raised(r) == r.type = "exception"

\* ValueProvider.get_provider: the patterns it tries, in order. Strings are
\* ASCII text.
Letters ==
    {"a", "b", "c", "d", "e", "f", "g", "h", "i", "j", "k", "l", "m",
     "n", "o", "p", "q", "r", "s", "t", "u", "v", "w", "x", "y", "z",
     "A", "B", "C", "D", "E", "F", "G", "H", "I", "J", "K", "L", "M",
     "N", "O", "P", "Q", "R", "S", "T", "U", "V", "W", "X", "Y", "Z"}
DigitChars == <<"0", "1", "2", "3", "4", "5", "6", "7", "8", "9">>

\* the characters int() skips around a number: space, tab, line feed,
\* vertical tab, form feed, carriage return
IntWhitespace == {" ", "\t", "\n", "", "\f", "\r"}
\* the characters str.strip() removes: those, and the four separators
\* 0x1c to 0x1f
Whitespace == IntWhitespace \cup {"", "", "", ""}

\* \d and \w of the regular expressions
IsDigit(c) == \E k \in 1..10 : DigitChars[k] = c
IsWord(c) == c \in Letters \/ IsDigit(c) \/ c = "_"

\* s begins with p
has_prefix(s, p) == Len(s) >= Len(p) /\ SubSeq(s, 1, Len(p)) = p

\* str.strip() and str.lstrip('-')
lstrip(s, chars) ==
    IF \A i \in 1..Len(s) : s[i] \in chars THEN <<>>
    ELSE LET k == CHOOSE k \in 1..Len(s) :
                      s[k] \notin chars /\ \A m \in 1..(k - 1) : s[m] \in chars
         IN SubSeq(s, k, Len(s))

rstrip(s, chars) ==
    IF \A i \in 1..Len(s) : s[i] \in chars THEN <<>>
    ELSE LET k == CHOOSE k \in 1..Len(s) :
                      s[k] \notin chars
                      /\ \A m \in (k + 1)..Len(s) : s[m] \in chars
         IN SubSeq(s, 1, k)

strip(s) == rstrip(lstrip(s, Whitespace), Whitespace)

\* str.split(','): the pieces between the commas
RECURSIVE split(_)
split(s) ==
    IF \E i \in 1..Len(s) : s[i] = ","
    THEN LET i == CHOOSE k \in 1..Len(s) :
                      s[k] = "," /\ \A m \in 1..(k - 1) : s[m] # ","
         IN <<SubSeq(s, 1, i - 1)>> \o split(SubSeq(s, i + 1, Len(s)))
    ELSE <<s>>

\* str.replace('.', '', 1)
remove_first_dot(s) ==
    IF \E i \in 1..Len(s) : s[i] = "."
    THEN LET i == CHOOSE k \in 1..Len(s) :
                      s[k] = "." /\ \A m \in 1..(k - 1) : s[m] # "."
         IN SubSeq(s, 1, i - 1) \o SubSeq(s, i + 1, Len(s))
    ELSE s

\* str.isdigit() and str.isalpha()
isdigit(s) == s # <<>> /\ \A i \in 1..Len(s) : IsDigit(s[i])
isalpha(s) == s # <<>> /\ \A i \in 1..Len(s) : s[i] \in Letters

\* line 44: x.strip().lstrip('-').replace('.', '', 1).isdigit()
looks_numeric(x) == isdigit(remove_first_dot(lstrip(strip(x), {"-"})))

\* int(s): the text without the blanks int() skips, and without its sign
int_text(s) == rstrip(lstrip(s, IntWhitespace), IntWhitespace)
int_body(s) ==
    LET t == int_text(s)
    IN IF t # <<>> /\ Head(t) \in {"+", "-"} THEN Tail(t) ELSE t

\* int(s) accepts: blanks around an optional sign and digits, which single
\* underscores may separate; the interpreter refuses more than 4300 digits
int_accepts(s) ==
    LET d == int_body(s)
    IN /\ d # <<>>
       /\ IsDigit(d[1]) /\ IsDigit(d[Len(d)])
       /\ \A i \in 1..Len(d) : IsDigit(d[i]) \/ d[i] = "_"
       /\ \A i \in 1..(Len(d) - 1) : ~(d[i] = "_" /\ d[i + 1] = "_")
       /\ Len(SelectSeq(d, IsDigit)) <= 4300

DigitValue(c) == (CHOOSE k \in 1..10 : DigitChars[k] = c) - 1

\* Integers are compared by their digits, which may be more than a machine
\* word holds: the digits of |int(s)| without leading zeros (none for 0)
magnitude(s) == lstrip(SelectSeq(int_body(s), IsDigit), {"0"})
int_negative(s) == Head(int_text(s)) = "-" /\ magnitude(s) # <<>>

\* a < b for two runs of digits without leading zeros
magnitude_less(a, b) ==
    \/ Len(a) < Len(b)
    \/ /\ Len(a) = Len(b)
       /\ \E i \in 1..Len(a) :
            /\ DigitValue(a[i]) < DigitValue(b[i])
            /\ \A j \in 1..(i - 1) : a[j] = b[j]

\* int(a) < int(b) for two texts int accepts
int_less(a, b) ==
    IF int_negative(a) # int_negative(b) THEN int_negative(a)
    ELSE IF int_negative(a) THEN magnitude_less(magnitude(b), magnitude(a))
    ELSE magnitude_less(magnitude(a), magnitude(b))

\* float(s) for a text that looks numeric: it is refused only for a second
\* leading minus sign
float_accepts(x) == Len(x) < 2 \/ ~(x[1] = "-" /\ x[2] = "-")

\* re.match(r'\$random\{([^}]+)\}', value)
random_match(value) ==
    /\ has_prefix(value, <<"$", "r", "a", "n", "d", "o", "m", "{">>)
    /\ first_close(value, 9) >= 10

\* re.match(r'\$lorem\{(\d+)\}', value)
lorem_match(value) ==
    /\ has_prefix(value, <<"$", "l", "o", "r", "e", "m", "{">>)
    /\ LET j == first_close(value, 8) IN
       j >= 9 /\ \A k \in 8..(j - 1) : IsDigit(value[k])

\* the index after the run of \w characters of s that starts at i
word_end(s, i) ==
    IF i > Len(s) THEN i
    ELSE IF \A k \in i..Len(s) : IsWord(s[k]) THEN Len(s) + 1
    ELSE CHOOSE k \in i..Len(s) :
             ~IsWord(s[k]) /\ \A m \in i..(k - 1) : IsWord(s[m])

\* re.match(r'\$(\w+)\{([^}]*)\}', value): its two groups, None when there
\* is no match
type_match(value) ==
    IF value # <<>> /\ Head(value) = "$"
    THEN LET w == word_end(value, 2)
             j == first_close(value, w + 1)
         IN IF w > 2 /\ w <= Len(value) /\ value[w] = "{" /\ j > 0
            THEN Some([provider_type |-> SubSeq(value, 2, w - 1),
                       params |-> SubSeq(value, w + 1, j - 1)])
            ELSE None
    ELSE None

\* random.randint(min_val, max_val) of two texts converted with int
randint_of(lo, hi) ==
    IF ~(int_accepts(lo) /\ int_accepts(hi)) THEN ValueError
    ELSE IF int_less(hi, lo) THEN ValueError
    ELSE Generated

\* lines 41-54: the provider of a $random{...} value
random_provider(group) ==
    LET parts == split(group)
        choices == [i \in 1..Len(parts) |-> strip(parts[i])]
    IN IF Len(choices) = 2 /\ \A i \in 1..2 : looks_numeric(choices[i])
       THEN IF \E i \in 1..2 : \E k \in 1..Len(choices[i]) : choices[i][k] = "."
            THEN IF \A i \in 1..2 : float_accepts(choices[i])
                 THEN Generated ELSE ValueError
            ELSE randint_of(choices[1], choices[2])
       ELSE Generated

\* sys.maxsize of a 64-bit build, and the longest list it can allocate
\* (sys.maxsize // 8)
MaxSize ==
    <<"9", "2", "2", "3", "3", "7", "2", "0", "3", "6", "8", "5", "4",
      "7", "7", "5", "8", "0", "7">>
MaxListLen ==
    <<"1", "1", "5", "2", "9", "2", "1", "5", "0", "4", "6", "0", "6",
      "8", "4", "6", "9", "7", "5">>

\* lines 65-68: the provider of $lorem{N}: int(N), then a list of N words
\* joined. Whether a list of N words fits in memory is the machine's.
lorem_provider(count) ==
    IF ~int_accepts(count) THEN {ValueError}
    ELSE IF magnitude_less(MaxSize, magnitude(count)) THEN {OverflowError}
    ELSE IF magnitude_less(MaxListLen, magnitude(count)) THEN {MemoryError}
    ELSE IF magnitude(count) = <<>> THEN {Generated}
    ELSE {Generated, MemoryError}

\* lines 76-83: the provider of a $range{...} value
range_provider(params) ==
    IF isalpha(params) /\ params \in {<<"p", "r", "i", "c", "e", "_", "r", "a", "n", "g", "e">>,
                                      <<"u", "s", "e", "r", "_", "a", "g", "e">>}
    THEN Generated
    ELSE LET parts == split(params) IN
         IF Len(parts) # 2 THEN ValueError
         ELSE randint_of(parts[1], parts[2])

\* ValueProvider.get_provider(value)() on a string: what the provider of the
\* first pattern the value matches can do; when none matches, or the type
\* matched is not one that is handled, the provider returns the value as it
\* is
get_provider(value) ==
    IF random_match(value)
    THEN {random_provider(SubSeq(value, 9, first_close(value, 9) - 1))}
    ELSE IF value = <<"$", "u", "u", "i", "d">> THEN {Generated}
    ELSE IF value = <<"$", "n", "o", "w">> THEN {Generated}
    ELSE IF lorem_match(value)
    THEN lorem_provider(SubSeq(value, 8, first_close(value, 8) - 1))
    ELSE LET tm == type_match(value) IN
         IF tm # None /\ tm[1].provider_type = <<"r", "a", "n", "g", "e">>
         THEN {range_provider(tm[1].params)}
         ELSE {Str(value)}

\* the string branch of _resolve_variables without the provider branch of
\* lines 134-136
resolve_string_substituting(cfg, text) ==
    LET names == findall(text, 1) IN
    {Str(IF names # <<>> THEN substitute(cfg, text, names) ELSE text)}

\* _resolve_variables, lines 132-152: what the call can do with a string
resolve_string(cfg, text) ==
    IF text # <<>> /\ Head(text) = "$" THEN get_provider(text)
    ELSE LET names == findall(text, 1) IN
         {Str(IF names # <<>> THEN substitute(cfg, text, names) ELSE text)}

\* _resolve_variables(value): what the call can do. The items of a list and
\* the values of a dict are resolved in order, and the first exception ends
\* the call; a value that is not a string, a dict or a list is returned as
\* it is.
RECURSIVE resolve_variables(_, _)
RECURSIVE resolve_items(_, _)
RECURSIVE resolve_entries(_, _)

\* [self._resolve_variables(item) for item in value]
resolve_items(cfg, items) ==
    IF items = <<>> THEN {List(<<>>)}
    ELSE UNION {IF Raised(h) THEN {h}
                ELSE {IF Raised(t) THEN t ELSE List(<<h>> \o t.items)
                      : t \in resolve_items(cfg, Tail(items))}
                : h \in resolve_variables(cfg, Head(items))}

\* {k: self._resolve_variables(v) for k, v in value.items()}
resolve_entries(cfg, entries) ==
    IF entries = <<>> THEN {Dict(<<>>)}
    ELSE UNION {IF Raised(h) THEN {h}
                ELSE {IF Raised(t) THEN t
                      ELSE Dict(<<[key |-> Head(entries).key, value |-> h]>>
                                \o t.items)
                      : t \in resolve_entries(cfg, Tail(entries))}
                : h \in resolve_variables(cfg, Head(entries).value)}

resolve_variables(cfg, value) ==
    IF value.type = "str" THEN resolve_string(cfg, value.text)
    ELSE IF value.type = "dict" THEN resolve_entries(cfg, value.items)
    ELSE IF value.type = "list" THEN resolve_items(cfg, value.items)
    ELSE {value}

\* The values the template is resolved in: on its own, and as an item of a
\* list, next to a number, that is the value of a dict entry.
InContainer(leaf) ==
    Dict(<<[key |-> <<"k">>, value |-> List(<<leaf, PyInt7>>)]>>)
GivenValues(text) == {Str(text), InContainer(Str(text))}

ResInit ==
    /\ tables \in [variables : Tables, generators : Tables,
                   datasets : Tables, ranges : Tables]
    /\ template \in SeqsUpTo(Chars, MaxTemplateLen)
    /\ given = None
    /\ resolved = None
    /\ PoolInit
    /\ MainStart
    /\ AggIdle

\* self._resolve_variables(value)
Resolve ==
    /\ resolved = None
    /\ \E v \in GivenValues(template) :
        /\ given' = Some(v)
        /\ \E r \in resolve_variables(tables, v) : resolved' = Some(r)
    /\ UNCHANGED <<tables, template>>
    /\ UNCHANGED <<poolVars, mainVars, aggVars>>

NextResolve == Resolve

SpecResolve == ResInit /\ [][NextResolve]_vars

\* ============================================================ claims
OutcomesOf(e) == SelectSeq(all_results, LAMBDA r : r.endpoint = e)
Started(e) == future[e] \in {"running", "done", "failed"}

\* C1 (as claimed): the body carried by the i-th request of an endpoint task
\* comes from the i-th resolution of the template, made between dispatch
\* i-1 and dispatch i.
C1_FreshBodyPerRequest ==
    \A e \in Endpoints :
        /\ resolutions[e] >= Len(results[e])
        /\ \A i \in 1..Len(results[e]) : results[e][i].body = Some(i)

\* C2: a task that raised contributes nothing to the combined result, every
\* task ends, each task that did not raise contributes all of its
\* requests_per_endpoint outcomes, and run_tests returns statistics without
\* raising.
C2_TaskIsolation ==
    /\ pc # "raised"
    /\ pc = "returned" =>
        /\ stats # None
        /\ \A e \in Endpoints :
            /\ future[e] \in {"done", "failed"}
            /\ future[e] = "failed" => Len(OutcomesOf(e)) = 0
            /\ future[e] = "done" => Len(OutcomesOf(e)) = RequestsPerEndpoint
        /\ stats[1].total_requests =
               RequestsPerEndpoint
                   * Cardinality({e \in Endpoints : future[e] = "done"})

C2_Witness ==
    /\ pc = "returned"
    /\ \E e \in Endpoints : future[e] = "failed" /\ exception[e] = "resolve"
    /\ \E e \in Endpoints : future[e] = "failed" /\ exception[e] = "send"
    /\ \E e \in Endpoints :
        future[e] = "done" /\ Len(OutcomesOf(e)) = RequestsPerEndpoint

\* C3: at most num_workers endpoint tasks execute at the same time; a task
\* that waits while the pool is full does not start in that step, and a task
\* submitted after the first num_workers starts only once an earlier task
\* has finished; every submitted task eventually runs.
C3_BoundedPool ==
    /\ [](Cardinality(Running) <= NumWorkers)
    /\ [](\A e \in Endpoints :
            (Started(e) /\ e > NumWorkers) =>
                \E d \in Endpoints : d < e /\ future[d] \in {"done", "failed"})
    /\ [][Cardinality(Running) = NumWorkers =>
            \A e \in Endpoints : future[e] = "pending" => future'[e] = "pending"]_vars
    /\ \A e \in Endpoints : (future[e] = "pending") ~> Started(e)
    /\ \A e \in Endpoints : <>Started(e)

C3_Witness ==
    /\ Cardinality(Running) = NumWorkers
    /\ workQueue # <<>>
    /\ NumEndpoints > NumWorkers

\* C5 (as claimed): no exception leaves _send_request, so no endpoint task
\* ever fails with an exception raised while sending.
C5_NeverPropagates ==
    \A e \in Endpoints : exception[e] # "send"

\* C10: within a task the outcomes are recorded in the order the requests
\* were sent, one per iteration; in the combined result every outcome lies in
\* a contiguous block of exactly requests_per_endpoint outcomes of its own
\* endpoint, in sending order.
C10_ContiguousBlocks ==
    /\ \A e \in Endpoints : \A i \in 1..Len(results[e]) :
        results[e][i].seq = i /\ results[e][i].endpoint = e
    /\ \A p \in 1..Len(all_results) :
        LET e == all_results[p].endpoint
            first == p - all_results[p].seq + 1
        IN /\ first >= 1
           /\ first + RequestsPerEndpoint - 1 <= Len(all_results)
           /\ \A j \in 1..RequestsPerEndpoint :
               /\ all_results[first + j - 1].endpoint = e
               /\ all_results[first + j - 1].seq = j
    /\ \A e \in Endpoints :
        Len(OutcomesOf(e)) =
            IF e \in collected /\ future[e] = "done"
            THEN RequestsPerEndpoint ELSE 0

\* two blocks in the combined result, in the reverse of submission order
C10_Witness ==
    /\ pc = "returned"
    /\ \E p, q \in 1..Len(all_results) :
        p < q /\ all_results[p].endpoint > all_results[q].endpoint
    /\ Len(all_results) >= 2 * RequestsPerEndpoint

\* ------------------------------------------------------------ statistics claims
SetMin(S) == CHOOSE x \in S : \A y \in S : x <= y
SetMax(S) == CHOOSE x \in S : \A y \in S : x >= y
SuccessIdx(all) == {k \in 1..Len(all) : all[k].success}

RECURSIVE SuccessTimeSum(_, _)
SuccessTimeSum(all, n) ==
    IF n = 0 THEN 0
    ELSE SuccessTimeSum(all, n - 1)
         + (IF all[n].success THEN all[n].response_time ELSE 0)

\* the successful latencies of every run, concatenated in run order
RECURSIVE SuccessTimes(_)
SuccessTimes(all) ==
    IF all = <<>> THEN <<>>
    ELSE (IF Head(all).success THEN <<Head(all).response_time>> ELSE <<>>)
         \o SuccessTimes(Tail(all))

RECURSIVE SuccessTimeSumAll(_)
SuccessTimeSumAll(runs) ==
    IF runs = <<>> THEN 0
    ELSE SuccessTimeSum(Head(runs), Len(Head(runs))) + SuccessTimeSumAll(Tail(runs))

RECURSIVE Population(_)
Population(runs) ==
    IF runs = <<>> THEN <<>>
    ELSE SuccessTimes(Head(runs)) \o Population(Tail(runs))

Values(seq) == {seq[k] : k \in 1..Len(seq)}

\* C7 (as claimed): aggregate_results returns for every non-empty list of
\* run statistics, and reports a success rate of 0 for every scope whose
\* total_requests is 0.
C7_NoDivisionByZero ==
    (aggPc \in {"returned", "raised"} /\ runOutcomes # <<>>) =>
        /\ aggPc = "returned"
        /\ \A i \in 1..Len(all_stats) :
            all_stats[i].total_requests = 0 =>
                aggregated[1].run_stats[i].success_rate = Rat(0, 1)
        /\ aggregated[1].total_requests = 0 =>
                aggregated[1].success_rate = Rat(0, 1)

\* C8 (as claimed): for every list of run statistics, aggregate_results
\* returns a min_time, a max_time and an avg_time, and they are the minimum,
\* the maximum and the mean (sum over count) of the population made of every
\* run's successful latencies in run order, and 0 when that population is
\* empty.
C8_PooledLatency ==
    aggPc \in {"returned", "raised"} =>
        /\ aggPc = "returned"
        /\ LET v == aggregated[1]
               pop == Population(runOutcomes)
           IN /\ {"min_time", "max_time", "avg_time", "response_times"}
                     \subseteq DOMAIN v
              /\ v.response_times = pop
              /\ pop = <<>> =>
                   v.min_time = 0 /\ v.max_time = 0 /\ v.avg_time = Rat(0, 1)
              /\ pop # <<>> =>
                   /\ v.min_time = SetMin(Values(pop))
                   /\ v.max_time = SetMax(Values(pop))
                   /\ v.avg_time.den > 0
                   /\ v.avg_time.num * Len(pop)
                          = SuccessTimeSumAll(runOutcomes) * v.avg_time.den

\* C9: in the statistics of a run, total = successful + failed, min_time,
\* max_time and avg_time are those of the successful outcomes' response
\* times alone, and all three are 0 when no outcome succeeded.
C9_RunStatistics ==
    \A i \in 1..Len(all_stats) :
        (aggPc # "idle") =>
            LET st == all_stats[i]
                all == runOutcomes[i]
                ok == SuccessIdx(all)
                times == {all[k].response_time : k \in ok}
            IN /\ st.total_requests = Len(all)
               /\ st.successful_requests = Cardinality(ok)
               /\ st.total_requests = st.successful_requests + st.failed_requests
               /\ ok = {} =>
                    st.min_time = 0 /\ st.max_time = 0 /\ st.avg_time = Rat(0, 1)
               /\ ok # {} =>
                    /\ st.min_time = SetMin(times)
                    /\ st.max_time = SetMax(times)
                    /\ st.avg_time.den > 0
                    /\ st.avg_time.num * Cardinality(ok)
                           = SuccessTimeSum(all, Len(all)) * st.avg_time.den

\* one run with a failed and a successful outcome, one with failures only
C9_Witness ==
    /\ aggPc = "stats"
    /\ \E i \in 1..Len(all_stats) :
        /\ all_stats[i].failed_requests >= 1
        /\ all_stats[i].successful_requests >= 1
        /\ all_stats[i].max_time < SetMax(Values(
               [k \in 1..Len(runOutcomes[i]) |-> runOutcomes[i][k].response_time]))
    /\ \E i \in 1..Len(all_stats) :
        /\ all_stats[i].total_requests >= 1
        /\ all_stats[i].successful_requests = 0
        /\ all_stats[i].avg_time = Rat(0, 1)

\* C4 (as claimed): whenever the configuration loaded (and the report could
\* be written), main prints the summary of every run, executes all
\* num_test_runs runs, computes the aggregate and returns 0, also when a
\* run's combined result holds no outcome or only failed outcomes.
C4_RunsAlwaysComplete ==
    (mainPc = "done" /\ error \notin {"config", "report"}) =>
        /\ exitCode = Some(0)
        /\ summaries = NumTestRuns
        /\ Len(all_stats) = NumTestRuns
        /\ aggregated # None

\* ------------------------------------------------------------ request claims
\* the error statuses a response of the transport can carry
ErrorStatuses ==
    {tr.status : tr \in {t \in transport :
                            t.kind = "response" /\ IsErrorStatus(t.status)}}

\* C11 (as claimed): an outcome made from a response with a 4xx or 5xx
\* status is a failure with a non-empty error and carries the status of that
\* response as its status_code; a failed outcome has no status_code only
\* when no response was received.
C11_ErrorStatusReported ==
    \A e \in Endpoints : \A i \in 1..Len(results[e]) :
        LET r == results[e][i] IN
        /\ r.error = Some("HTTPError") =>
              /\ ~r.success
              /\ r.status_code # None
              /\ r.status_code[1] \in ErrorStatuses
        /\ (~r.success /\ r.status_code = None) =>
              r.error = Some("ConnectionError")

\* ------------------------------------------------------------ resolution claims
\* the value of the first table, in the order variables, generators,
\* datasets, ranges, that holds the key; None when no table holds it
first_containing(cfg, name) ==
    IF name \in DOMAIN cfg.variables THEN Some(cfg.variables[name])
    ELSE IF name \in DOMAIN cfg.generators THEN Some(cfg.generators[name])
    ELSE IF name \in DOMAIN cfg.datasets THEN Some(cfg.datasets[name])
    ELSE IF name \in DOMAIN cfg.ranges THEN Some(cfg.ranges[name])
    ELSE None

\* the text the claim has spliced in for ${name}
claimed_text(cfg, name) ==
    LET v == first_containing(cfg, name)
    IN IF v = None THEN placeholder(name) ELSE v[1].text

RECURSIVE claimed_substitute(_, _, _)
claimed_substitute(cfg, result, names) ==
    IF names = <<>> THEN result
    ELSE claimed_substitute(cfg,
                            replace(result, placeholder(Head(names)),
                                    claimed_text(cfg, Head(names))),
                            Tail(names))

\* the value given with its string replaced by what the string resolved to;
\* an exception takes the place of the whole value
in_place(v, r) ==
    IF Raised(r) THEN r ELSE IF v.type = "str" THEN r ELSE InContainer(r)

\* C6 (as claimed): every ${name} reference a substitution handles is
\* replaced by the text of the value of the first table that holds the key,
\* whatever the value, and is kept only when no table holds the key.
C6_FirstTableWins ==
    (resolved # None /\ template # <<>> /\ Head(template) # "$") =>
        resolved[1] =
            in_place(given[1],
                     Str(claimed_substitute(tables, template,
                                            findall(template, 1))))

\* C12: a string that starts with "$" is resolved by the value provider
\* alone, and one that begins with a ${name} reference comes back unchanged,
\* none of its references substituted, whatever the tables define.
C12_LeadingDollarUnsubstituted ==
    (resolved # None /\ template # <<>> /\ Head(template) = "$") =>
        /\ \E r \in get_provider(template) :
              resolved[1] = in_place(given[1], r)
        /\ match_at(template, 1) > 0 =>
              resolved[1] = in_place(given[1], Str(template))

\* a reference to a name the variables table defines, followed by more text,
\* inside a container
C12_Witness ==
    /\ resolved # None
    /\ given[1].type = "dict"
    /\ match_at(template, 1) = 4
    /\ Len(template) = 5
    /\ findall(template, 1) = <<<<"x">>>>
    /\ Truthy(table_get(tables.variables, <<"x">>))
    /\ resolved[1] = InContainer(Str(template))

====
